---- MODULE Spec2Model ----
(***************************************************************************)
(* Model of the attendance check-in service:                               *)
(*   src/src/connectors/gsheets_client.py  (AttendanceManager)             *)
(*   src/src/main.py                       (POST /register-arrival)        *)
(*                                                                         *)
(* Text is modelled as a sequence of one-character strings, so that        *)
(* strip(), the f-string concatenation and strftime() are computed         *)
(* character by character.  The worksheet is a grid of such texts; row 1   *)
(* is the header row.  Each call of register_arrival is a process whose    *)
(* steps are the two store round trips (get_all_records, update_cell)      *)
(* and the local computation between them.                                 *)
(*                                                                         *)
(* The store is the external collaborator: cell values are texts, a round  *)
(* trip is atomic, and a round trip that raises leaves the sheet as it     *)
(* was.  The registry never adds or removes rows.                          *)
(***************************************************************************)
EXTENDS Integers, Sequences, FiniteSets, TLC

(* ------------------------------ bounds --------------------------------- *)

\* number of register_arrival calls issued in one behaviour
NumCalls == 2

\* number of one-second clock ticks observed in one behaviour
MaxTicks == 1

Calls == 1..NumCalls

(* ------------------------------- text ---------------------------------- *)

\* characters str.strip() removes
Whitespace == {" ", "\t"}

RECURSIVE LStrip(_)
LStrip(s) ==
    IF s = <<>> THEN <<>>
    ELSE IF Head(s) \in Whitespace THEN LStrip(Tail(s))
    ELSE s

RECURSIVE RStrip(_)
RStrip(s) ==
    IF s = <<>> THEN <<>>
    ELSE IF s[Len(s)] \in Whitespace THEN RStrip(SubSeq(s, 1, Len(s) - 1))
    ELSE s

\* str.strip()
Strip(s) == RStrip(LStrip(s))

Digits == <<"0", "1", "2", "3", "4", "5", "6", "7", "8", "9">>

\* one decimal digit as a character
Digit(n) == Digits[n + 1]

\* %m, %d, %H, %M, %S: two digits, zero padded
Pad2(n) == <<Digit((n \div 10) % 10), Digit(n % 10)>>

\* %Y: four digits
Pad4(n) == <<Digit((n \div 1000) % 10), Digit((n \div 100) % 10)>> \o Pad2(n % 100)

(* ------------------------------- clock --------------------------------- *)

\* The civil date of instant 0.  Instants are whole seconds of Bogota wall
\* time counted from midnight of that day; the behaviours stay inside the
\* month, so the calendar never carries into the month or the year.
Epoch == [year |-> 2024, month |-> 1, day |-> 1]

SecondsPerDay == 24 * 60 * 60

\* datetime fields of an instant
DateTime(t) ==
    [year   |-> Epoch.year,
     month  |-> Epoch.month,
     day    |-> Epoch.day + (t \div SecondsPerDay),
     hour   |-> (t % SecondsPerDay) \div 3600,
     minute |-> (t % 3600) \div 60,
     second |-> t % 60]

\* strftime("%Y-%m-%d %H:%M:%S")
Strftime(dt) ==
    Pad4(dt.year) \o <<"-">> \o Pad2(dt.month) \o <<"-">> \o Pad2(dt.day)
      \o <<" ">>
      \o Pad2(dt.hour) \o <<":">> \o Pad2(dt.minute) \o <<":">> \o Pad2(dt.second)

ShiftMorning == "Jornada Mañana"
ShiftAfternoon == "Jornada Tarde"

\* faulty variant: the boundary hour counted as morning
DetermineShiftLe(dt) ==
    IF dt.hour <= 12 THEN ShiftMorning ELSE ShiftAfternoon

\* AttendanceManager._determine_shift
DetermineShift(dt) ==
    IF dt.hour < 12 THEN ShiftMorning ELSE ShiftAfternoon

(* ------------------------------- store --------------------------------- *)

\* Header row of the worksheet "asistentes".  The code fixes only that
\* id_number, name and arrival_time are headers and that arrival_time is
\* column E; the two middle headers stand for the other columns.
Header == <<"id_number", "name", "col_c", "col_d", "arrival_time">>

\* column E
ArrivalCol == 5

\* dict.get(key, default)
Get(record, key, default) ==
    IF key \in DOMAIN record THEN record[key] ELSE default

\* position of a header in the header row
ColOf(header, h) == CHOOSE j \in 1..Len(header) : header[j] = h

\* worksheet.get_all_records(): one header->value mapping per data row, in
\* sheet order; data row k of the result is sheet row k + 1
GetAllRecords(sheet) ==
    [k \in 1..(Len(sheet) - 1) |->
        [h \in {sheet[1][j] : j \in 1..Len(sheet[1])} |->
            sheet[k + 1][ColOf(sheet[1], h)]]]

\* faulty variant: the column counted from 0
UpdateCellZeroBasedCol(sheet, row, col, value) ==
    [sheet EXCEPT ![row][col - 1] = value]

\* worksheet.update_cell(row, col, value), 1-based coordinates
UpdateCell(sheet, row, col, value) ==
    [sheet EXCEPT ![row][col] = value]

(* ------------------------------ registry ------------------------------- *)

NotFound == [found |-> FALSE]

\* the for loop of _find_person_row from 0-based index idx on
RECURSIVE ScanFrom(_, _, _)
ScanFrom(all_records, id_number, idx) ==
    IF idx >= Len(all_records) THEN NotFound
    ELSE IF Strip(Get(all_records[idx + 1], "id_number", <<>>)) = Strip(id_number)
         THEN [found |-> TRUE, row_index |-> idx + 2,
               person_data |-> all_records[idx + 1]]
         ELSE ScanFrom(all_records, id_number, idx + 1)

\* faulty variant: the header row not counted in the row position
FindPersonRowOffByOne(all_records, id_number) ==
    LET f == ScanFrom(all_records, id_number, 0)
    IN  IF f.found THEN [f EXCEPT !.row_index = @ - 1] ELSE f

\* faulty variant: the loop keeps going after a match, so the last wins
RECURSIVE ScanLast(_, _, _, _)
ScanLast(all_records, id_number, idx, best) ==
    IF idx >= Len(all_records) THEN best
    ELSE IF Strip(Get(all_records[idx + 1], "id_number", <<>>)) = Strip(id_number)
         THEN ScanLast(all_records, id_number, idx + 1,
                       [found |-> TRUE, row_index |-> idx + 2,
                        person_data |-> all_records[idx + 1]])
         ELSE ScanLast(all_records, id_number, idx + 1, best)

FindPersonRowLast(all_records, id_number) ==
    ScanLast(all_records, id_number, 0, NotFound)

\* AttendanceManager._find_person_row
FindPersonRow(all_records, id_number) ==
    ScanFrom(all_records, id_number, 0)

\* faulty variant: the cell is set to the new timestamp alone
UpdatedArrivalOverwrite(current_arrival, new_timestamp) ==
    new_timestamp

\* faulty variant: the new timestamp put in front
UpdatedArrivalPrepend(current_arrival, new_timestamp) ==
    IF current_arrival # <<>> /\ Strip(current_arrival) # <<>>
    THEN new_timestamp \o <<",", " ">> \o current_arrival
    ELSE new_timestamp

\* faulty variant: the separator without its space
UpdatedArrivalNoSpace(current_arrival, new_timestamp) ==
    IF current_arrival # <<>> /\ Strip(current_arrival) # <<>>
    THEN current_arrival \o <<",">> \o new_timestamp
    ELSE new_timestamp

\* the comma-separated list after one more arrival
UpdatedArrival(current_arrival, new_timestamp) ==
    IF current_arrival # <<>> /\ Strip(current_arrival) # <<>>
    THEN current_arrival \o <<",", " ">> \o new_timestamp
    ELSE new_timestamp

MsgNotRegistered == <<"Persona no registrada">>
MsgRegistered == <<"Asistencia registrada exitosamente">>
MsgError(e) == <<"Error al registrar asistencia: ", e>>

\* faulty variant: the not-found return flagged as a success
NotRegisteredResultOk(id_number) ==
    [success |-> TRUE, message |-> MsgNotRegistered, id_number |-> id_number]

\* the return of register_arrival when the id is on no row
NotRegisteredResult(id_number) ==
    [success |-> FALSE, message |-> MsgNotRegistered, id_number |-> id_number]

\* the return of register_arrival after the cell was written
RegisteredResult(id_number, person_data, new_timestamp, shift, updated_arrival) ==
    [success |-> TRUE, message |-> MsgRegistered, id_number |-> id_number,
     name |-> Get(person_data, "name", <<>>), timestamp |-> new_timestamp,
     shift |-> shift, all_arrivals |-> updated_arrival]

\* faulty variant: the except clause logs and re-raises, as the one of
\* _find_person_row does
OnExceptionReraise(id_number, e) ==
    [kind |-> "raise", exc |-> e]

\* the except clause of register_arrival: how the call ends on exception e
OnException(id_number, e) ==
    [kind |-> "return",
     result |-> [success |-> FALSE, message |-> MsgError(e),
                 id_number |-> id_number]]

(* ------------------------------ endpoint ------------------------------- *)

MsgUnavailable == <<"Sistema no disponible. Contacte al administrador.">>
MsgMissingId == <<"Debe proporcionar un número de identificación">>
MsgEmptyId == <<"El número de identificación no puede estar vacío">>
MsgServerError(e) == <<"Error interno del servidor: ", e>>

\* the status the endpoint pairs with a result of the registry
StatusCode(result) == IF result.success THEN 200 ELSE 404

\* how the endpoint answers once register_arrival has ended: with its
\* result, or, had an exception left it, with the endpoint's own except
Answer(rec, outcome) ==
    IF outcome.kind = "return"
    THEN [rec EXCEPT !.pc = "done",
                     !.result = outcome.result,
                     !.status = IF rec.entry = "http"
                                THEN StatusCode(outcome.result) ELSE 0]
    ELSE [rec EXCEPT !.pc = "done",
                     !.raised = TRUE,
                     !.result = [success |-> FALSE,
                                 message |-> MsgServerError(outcome.exc)],
                     !.status = IF rec.entry = "http" THEN 500 ELSE 0]

(* ------------------------------- inputs -------------------------------- *)

\* worksheets the service may find at start: a header row and two people.
\* In the first the two rows hold the same id, once with blanks around it,
\* and no arrivals; in the second the ids differ and the first person's
\* arrival_time cell holds a blank.
Worksheets ==
    {<<Header,
       <<<<" ", "7", " ">>, <<"A">>, <<>>, <<>>, <<>>>>,
       <<<<"7">>, <<"B">>, <<>>, <<>>, <<>>>>>>,
     <<Header,
       <<<<" ", "7", " ">>, <<"A">>, <<>>, <<>>, <<" ">>>>,
       <<<<"8">>, <<"B">>, <<>>, <<>>, <<>>>>>>}

\* ids callers submit
SubmittedIds == {<<"7", " ">>, <<"8">>, <<"9">>, <<" ">>}

\* ids typed at the command line
TypedIds == {<<"7", " ">>, <<"9">>}

\* request bodies of POST /register-arrival
Bodies ==
    {[kind |-> "malformed"], [kind |-> "null"], [kind |-> "nokey"]}
      \cup {[kind |-> "id", id_number |-> s] : s \in SubmittedIds}

\* clock reading at start: one second before noon
BeforeNoon == {12 * 3600 - 1}

\* clock readings at start: the first and the last second of every hour
EveryHour == {h * 3600 + d : h \in 0..23, d \in {0, 3599}}

(* -------------------------------- state -------------------------------- *)

VARIABLES
    attendance_manager,  \* main.py's module-level manager: "connected" or "none"
    worksheet,           \* the grid of the worksheet, header row first
    now,                 \* the Bogota wall clock, in seconds since the Epoch
    ticks,               \* clock ticks so far
    call,                \* per call: its position and its local variables
    ver,                 \* history: per sheet row, the writes to its cell so far
    wlog,                \* history: the calls that wrote, in write order
    worksheet0           \* history: the worksheet at start

vars == <<attendance_manager, worksheet, now, ticks, call, ver, wlog, worksheet0>>

Idle ==
    [pc |-> "idle", entry |-> "none", id_number |-> <<>>,
     all_records |-> <<>>, row_index |-> 0, person_data |-> <<>>,
     current_dt |-> <<>>, new_timestamp |-> <<>>, shift |-> "",
     current_arrival |-> <<>>, updated_arrival |-> <<>>,
     result |-> <<>>, status |-> 0, raised |-> FALSE,
     read_ver |-> <<>>, failed |-> "", stale |-> FALSE, wrote |-> 0]

InitWith(starts, sheets, managers) ==
    /\ attendance_manager \in managers
    /\ worksheet \in sheets
    /\ worksheet0 = worksheet
    /\ now \in starts
    /\ ticks = 0
    /\ call = [c \in Calls |-> Idle]
    /\ ver = [r \in 1..Len(worksheet) |-> 0]
    /\ wlog = <<>>

Init == InitWith(BeforeNoon, Worksheets, {"connected", "none"})

(* ------------------------------- actions ------------------------------- *)

\* calls are numbered in the order they begin
InOrder(c) == IF c = 1 THEN TRUE ELSE call[c - 1].pc # "idle"

\* the clock advances by one second
Tick ==
    /\ ticks < MaxTicks
    /\ now' = now + 1
    /\ ticks' = ticks + 1
    /\ UNCHANGED <<attendance_manager, worksheet, call, ver, wlog, worksheet0>>

\* POST /register-arrival up to the call of the registry
Request(c, body) ==
    /\ call[c].pc = "idle"
    /\ InOrder(c)
    /\ call' = [call EXCEPT ![c] =
         LET rec == [@ EXCEPT !.entry = "http"] IN
         IF attendance_manager = "none"
         THEN [rec EXCEPT !.pc = "done", !.status = 503,
                          !.result = [success |-> FALSE, message |-> MsgUnavailable]]
         ELSE IF body.kind = "malformed"
         THEN [rec EXCEPT !.pc = "done", !.status = 500,
                          !.result = [success |-> FALSE,
                                      message |-> MsgServerError("bad request")]]
         ELSE IF body.kind \in {"null", "nokey"}
         THEN [rec EXCEPT !.pc = "done", !.status = 400,
                          !.result = [success |-> FALSE, message |-> MsgMissingId]]
         ELSE IF Strip(body.id_number) = <<>>
         THEN [rec EXCEPT !.pc = "done", !.status = 400,
                          !.result = [success |-> FALSE, message |-> MsgEmptyId]]
         ELSE [rec EXCEPT !.pc = "find", !.id_number = Strip(body.id_number)]]
    /\ UNCHANGED <<attendance_manager, worksheet, now, ticks, ver, wlog, worksheet0>>

\* manager.register_arrival(test_id) of the module's command-line use: the
\* id goes to the registry as typed
DirectCall(c, id_number) ==
    /\ call[c].pc = "idle"
    /\ InOrder(c)
    /\ attendance_manager = "connected"
    /\ call' = [call EXCEPT ![c] =
         [@ EXCEPT !.entry = "direct", !.pc = "find", !.id_number = id_number]]
    /\ UNCHANGED <<attendance_manager, worksheet, now, ticks, ver, wlog, worksheet0>>

\* register_arrival, first store round trip: _find_person_row and the
\* not-found return; a failing read raises into register_arrival's except
Find(c, ok) ==
    /\ call[c].pc = "find"
    /\ call' = [call EXCEPT ![c] =
         LET me == call[c] IN
         IF ~ok
         THEN Answer([me EXCEPT !.failed = "store read failed"],
                     OnException(me.id_number, "store read failed"))
         ELSE LET all_records == GetAllRecords(worksheet)
                  found == FindPersonRow(all_records, me.id_number)
                  rec == [me EXCEPT !.all_records = all_records, !.read_ver = ver]
              IN  IF ~found.found
                  THEN Answer(rec, [kind |-> "return",
                                    result |-> NotRegisteredResult(me.id_number)])
                  ELSE [rec EXCEPT !.pc = "stamp",
                                   !.row_index = found.row_index,
                                   !.person_data = found.person_data]]
    /\ UNCHANGED <<attendance_manager, worksheet, now, ticks, ver, wlog, worksheet0>>

\* register_arrival between the round trips: the clock is read once, the
\* timestamp, the shift and the new cell value are computed
Stamp(c) ==
    /\ call[c].pc = "stamp"
    /\ call' = [call EXCEPT ![c] =
         LET me == call[c]
             current_dt == DateTime(now)
             new_timestamp == Strftime(current_dt)
             current_arrival == Get(me.person_data, "arrival_time", <<>>)
         IN  [me EXCEPT !.pc = "write",
                        !.current_dt = current_dt,
                        !.new_timestamp = new_timestamp,
                        !.shift = DetermineShift(current_dt),
                        !.current_arrival = current_arrival,
                        !.updated_arrival =
                            UpdatedArrival(current_arrival, new_timestamp)]]
    /\ UNCHANGED <<attendance_manager, worksheet, now, ticks, ver, wlog, worksheet0>>

\* register_arrival, second store round trip: update_cell and the success
\* return; a failing write raises into register_arrival's except
Write(c, ok) ==
    LET me == call[c] IN
    /\ me.pc = "write"
    /\ IF ok
       THEN /\ worksheet' = UpdateCell(worksheet, me.row_index, ArrivalCol,
                                       me.updated_arrival)
            /\ ver' = [ver EXCEPT ![me.row_index] = @ + 1]
            /\ wlog' = Append(wlog, c)
            /\ call' = [call EXCEPT ![c] =
                 Answer([me EXCEPT !.wrote = @ + 1,
                                   !.stale = (ver[me.row_index]
                                                # me.read_ver[me.row_index])],
                        [kind |-> "return",
                         result |-> RegisteredResult(me.id_number, me.person_data,
                                       me.new_timestamp, me.shift,
                                       me.updated_arrival)])]
       ELSE /\ call' = [call EXCEPT ![c] =
                 Answer([me EXCEPT !.failed = "store write failed"],
                        OnException(me.id_number, "store write failed"))]
            /\ UNCHANGED <<worksheet, ver, wlog>>
    /\ UNCHANGED <<attendance_manager, now, ticks, worksheet0>>

Next ==
    \/ Tick
    \/ \E c \in Calls, body \in Bodies : Request(c, body)
    \/ \E c \in Calls, s \in TypedIds : DirectCall(c, s)
    \/ \E c \in Calls, ok \in BOOLEAN : Find(c, ok)
    \/ \E c \in Calls : Stamp(c)
    \/ \E c \in Calls, ok \in BOOLEAN : Write(c, ok)

Spec == Init /\ [][Next]_vars

\* the same service started at any hour of the day
InitHours == InitWith(EveryHour, Worksheets, {"connected"})

\* one caller at a time-of-day of its choosing
NextHours ==
    \/ Tick
    \/ \E body \in Bodies : Request(1, body)
    \/ \E s \in TypedIds : DirectCall(1, s)
    \/ \E ok \in BOOLEAN : Find(1, ok)
    \/ Stamp(1)
    \/ \E ok \in BOOLEAN : Write(1, ok)

SpecHours == InitHours /\ [][NextHours]_vars

(* ------------------------- vocabulary of the claims -------------------- *)

IsPrefix(a, b) == Len(a) <= Len(b) /\ SubSeq(b, 1, Len(a)) = a

Min(S) == CHOOSE x \in S : \A y \in S : x <= y

\* s without its leading and trailing whitespace, stated by what it is:
\* the slice of s that neither begins nor ends with whitespace and has
\* only whitespace before and after it
Trimmed(s) ==
    IF \A i \in 1..Len(s) : s[i] \in Whitespace THEN <<>>
    ELSE LET lo == Min({i \in 1..Len(s) : s[i] \notin Whitespace})
             hi == CHOOSE j \in 1..Len(s) :
                       /\ s[j] \notin Whitespace
                       /\ \A k \in (j + 1)..Len(s) : s[k] \in Whitespace
         IN  SubSeq(s, lo, hi)

Blank(s) == Trimmed(s) = <<>>

\* the records of a table whose id equals id_number after trimming both
Matches(all_records, id_number) ==
    {k \in 1..Len(all_records) :
        Trimmed(all_records[k].id_number) = Trimmed(id_number)}

\* the sheet row of the person an id names: the first data row whose id
\* equals it after trimming, 0 when there is none
PersonRow(id_number) ==
    LET rows == {r \in 2..Len(worksheet0) :
                    Trimmed(worksheet0[r][1]) = Trimmed(id_number)}
    IN  IF rows = {} THEN 0 ELSE Min(rows)

\* the calls that wrote an arrival for the person of sheet row r, in write order
Writers(r) == SelectSeq(wlog, LAMBDA c : PersonRow(call[c].id_number) = r)

Done(c) == call[c].pc = "done"

\* the call handed its id to register_arrival and the table was read
HasRead(c) == call[c].read_ver # <<>>

\* register_arrival returned the success result
Registered(c) == Done(c) /\ call[c].result.success

\* the arrival_time cell of sheet row r
Cell(sheet, r) == sheet[r][ArrivalCol]

\* the number of timestamps a cell value lists
RECURSIVE Commas(_)
Commas(s) ==
    IF s = <<>> THEN 0
    ELSE (IF Head(s) = "," THEN 1 ELSE 0) + Commas(Tail(s))

CountStamps(s) == IF Blank(s) THEN 0 ELSE 1 + Commas(s)

\* the first k timestamps of the calls ws, joined by ", "
RECURSIVE Joined(_, _)
Joined(ws, k) ==
    IF k = 0 THEN <<>>
    ELSE IF k = 1 THEN call[ws[1]].result.timestamp
    ELSE Joined(ws, k - 1) \o <<",", " ">> \o call[ws[k]].result.timestamp

DigitVal(ch) == CHOOSE d \in 0..9 : Digits[d + 1] = ch

\* the hour a timestamp text shows
HourShown(ts) == 10 * DigitVal(ts[12]) + DigitVal(ts[13])

PeopleRows == 2..Len(worksheet)

(* ------------------------------- claims -------------------------------- *)

\* C1 as stated: in every step, an arrival_time cell that lists arrivals
\* keeps the value it held as a prefix of the value it holds next (a blank
\* cell lists none, so nothing stored can be removed from it).
C1_NeverOverwritten ==
    [][\A r \in PeopleRows :
          \/ Blank(Cell(worksheet, r))
          \/ IsPrefix(Cell(worksheet, r), Cell(worksheet', r))]_vars

\* C1 amended: every write to an arrival_time cell is the write of one call
\* and produces, from the value that call read, that value followed by
\* ", " and the call's timestamp when the value read is not blank, and the
\* timestamp alone when it is blank; whenever no other write to the cell
\* came between the call's read and its write, the value read is the value
\* the cell held immediately before the write, so that the previous value
\* is a prefix of the new one unless it was blank.
C1_AppendsToValueRead ==
    [][\A r \in PeopleRows :
          Cell(worksheet', r) # Cell(worksheet, r) =>
              \E c \in Calls :
                  LET old == Cell(worksheet, r)
                      new == Cell(worksheet', r)
                      read == call[c].current_arrival
                  IN  /\ wlog' = Append(wlog, c)
                      /\ call[c].pc = "write"
                      /\ ~Blank(read) =>
                             /\ IsPrefix(read, new)
                             /\ new = read \o <<",", " ">> \o call[c].new_timestamp
                      /\ Blank(read) => new = call[c].new_timestamp
                      /\ ver[r] = call[c].read_ver[r] =>
                             /\ read = old
                             /\ ~Blank(old) => IsPrefix(old, new)]_vars

\* C1's case: a call that overlapped no other write appended its timestamp
\* to a cell that already listed one
C1_Witness ==
    \E c \in Calls :
        /\ Registered(c)
        /\ ~call[c].stale
        /\ ~Blank(call[c].current_arrival)
        /\ Cell(worksheet, call[c].row_index) = call[c].result.all_arrivals

\* C2: a call whose id equals, after trimming both, the id of no record of
\* the table it read ends with the not-registered result, success false,
\* without going on to the clock or the write, and writes no cell.
C2_NotFoundWritesNothing ==
    \A c \in Calls :
        (HasRead(c) /\ Matches(call[c].all_records, call[c].id_number) = {}) =>
            /\ Done(c)
            /\ call[c].result.success = FALSE
            /\ call[c].result = [success |-> FALSE, message |-> MsgNotRegistered,
                                 id_number |-> call[c].id_number]
            /\ call[c].wrote = 0
            /\ \A i \in 1..Len(wlog) : wlog[i] # c

\* C2's case: a call for an id on no row has ended while another call has
\* written, so the store did change around it
C2_Witness ==
    \E c \in Calls :
        /\ HasRead(c)
        /\ Done(c)
        /\ Matches(call[c].all_records, call[c].id_number) = {}
        /\ PersonRow(call[c].id_number) = 0
        /\ wlog # <<>>

\* C3: for a person whose cell is empty at start and whose successful calls
\* did not overlap one another, the k-th call returns as all_arrivals the
\* first k timestamps in call order joined by ", ", and the cell holds the
\* value the last of them returned.
C3_SequentialAppends ==
    \A r \in PeopleRows :
        LET ws == Writers(r) IN
        (Cell(worksheet0, r) = <<>> /\ \A i \in 1..Len(ws) : ~call[ws[i]].stale) =>
            /\ \A k \in 1..Len(ws) :
                   call[ws[k]].result.all_arrivals = Joined(ws, k)
            /\ ws # <<>> => Cell(worksheet, r) = Joined(ws, Len(ws))

\* C3's case: two calls for one person, one after the other at different
\* clock readings, on a cell empty at start
C3_Witness ==
    \E r \in PeopleRows :
        LET ws == Writers(r) IN
        /\ Cell(worksheet0, r) = <<>>
        /\ Len(ws) = 2
        /\ ~call[ws[1]].stale /\ ~call[ws[2]].stale
        /\ call[ws[1]].result.timestamp # call[ws[2]].result.timestamp
        /\ Cell(worksheet, r) =
               call[ws[1]].result.timestamp \o <<",", " ">>
                 \o call[ws[2]].result.timestamp

\* C4: the cell of a person holds what the last writer wrote: the value of
\* the cell in the table that writer had read, followed by its timestamp;
\* when another call wrote the cell between the last writer's read and its
\* write, both calls returned success and the cell lists fewer timestamps
\* than were stored for the person.
C4_LostUpdate ==
    \A r \in PeopleRows :
        LET ws == Writers(r) IN
        ws # <<>> =>
            LET d == ws[Len(ws)]
                stale_value == call[d].all_records[r - 1].arrival_time
            IN  /\ Registered(d)
                /\ Cell(worksheet, r) =
                       IF Blank(stale_value) THEN call[d].result.timestamp
                       ELSE stale_value \o <<",", " ">> \o call[d].result.timestamp
                /\ call[d].stale =>
                       /\ Len(ws) >= 2
                       /\ \A i \in 1..Len(ws) : Registered(ws[i])
                       /\ CountStamps(Cell(worksheet, r))
                              < CountStamps(Cell(worksheet0, r)) + Len(ws)

\* C4's case: two calls for one person read the table before either wrote,
\* both returned success, and the cell lists one timestamp more than at start
C4_Witness ==
    \E c, d \in Calls :
        /\ c # d
        /\ Registered(c) /\ Registered(d)
        /\ call[c].row_index = call[d].row_index
        /\ call[c].read_ver = call[d].read_ver
        /\ call[d].stale
        /\ Writers(call[d].row_index) = <<c, d>>
        /\ CountStamps(Cell(worksheet, call[d].row_index))
               = CountStamps(Cell(worksheet0, call[d].row_index)) + 1

\* C5: whatever the other calls do, the row of a person for whom no call
\* wrote is as at start, and the row of a person for whom one call wrote is
\* as at start but for the cell, which is what that call alone produces
\* from the value at start; the header row is as at start.
C5_RowsIndependent ==
    /\ Len(worksheet) = Len(worksheet0)
    /\ worksheet[1] = worksheet0[1]
    /\ \A r \in PeopleRows :
           LET ws == Writers(r) IN
           /\ Len(ws) = 0 => worksheet[r] = worksheet0[r]
           /\ Len(ws) = 1 =>
                  worksheet[r] =
                      [worksheet0[r] EXCEPT ![ArrivalCol] =
                          IF Blank(Cell(worksheet0, r))
                          THEN call[ws[1]].result.timestamp
                          ELSE Cell(worksheet0, r) \o <<",", " ">>
                                 \o call[ws[1]].result.timestamp]

\* C5's case: two calls for different people read the table before either
\* wrote, and both wrote
C5_Witness ==
    \E c, d \in Calls :
        /\ Registered(c) /\ Registered(d)
        /\ PersonRow(call[c].id_number) # PersonRow(call[d].id_number)
        /\ call[c].read_ver = call[d].read_ver

\* C6: no exception leaves register_arrival; a call in which a store round
\* trip failed ends with success false and the error message carrying the
\* failure's text, which is not the not-registered message.
C6_FailureIsAResult ==
    \A c \in Calls :
        /\ ~call[c].raised
        /\ (Done(c) /\ call[c].failed # "") =>
               /\ call[c].result =
                      [success |-> FALSE,
                       message |-> <<"Error al registrar asistencia: ",
                                     call[c].failed>>,
                       id_number |-> call[c].id_number]
               /\ call[c].result.message # MsgNotRegistered
               /\ call[c].result.success = FALSE

\* C6's case: the cell write of a call failed
C6_Witness ==
    \E c \in Calls :
        /\ Done(c)
        /\ call[c].failed = "store write failed"
        /\ call[c].result.success = FALSE

\* C7 as stated: 503 when the registry is not initialized, with no store
\* access; 400 for a missing or blank id, the registry not called; 200 for a
\* registered arrival; 404 only for an id that is on no record; 500 for a
\* failure during the registration.
C7_StatusPerOutcome ==
    \A c \in Calls :
        (Done(c) /\ call[c].entry = "http") =>
            /\ attendance_manager = "none" =>
                   call[c].status = 503 /\ ~HasRead(c) /\ call[c].wrote = 0
            /\ call[c].status = 400 => ~HasRead(c) /\ call[c].failed = ""
            /\ call[c].status = 200 <=> call[c].result.success
            /\ call[c].status = 404 =>
                   /\ HasRead(c)
                   /\ Matches(call[c].all_records, call[c].id_number) = {}
            /\ call[c].failed # "" => call[c].status = 500

\* C8: the step in which a call returns success writes one cell: column 5
\* of the row position the call found becomes the text it returns as
\* all_arrivals, every other cell keeps its value and the number of rows
\* stays; no other step changes the worksheet.
C8_SingleCellWrite ==
    [][/\ \A c \in Calls :
             (call[c].pc # "done" /\ call'[c].pc = "done"
                 /\ call'[c].result.success) =>
                 /\ Len(worksheet') = Len(worksheet)
                 /\ \A r \in 1..Len(worksheet) :
                        /\ Len(worksheet'[r]) = Len(worksheet[r])
                        /\ \A j \in 1..Len(worksheet[r]) :
                               worksheet'[r][j] =
                                   IF r = call[c].row_index /\ j = 5
                                   THEN call'[c].result.all_arrivals
                                   ELSE worksheet[r][j]
                 /\ call'[c].wrote = 1
       /\ worksheet' # worksheet =>
              \E c \in Calls :
                  /\ call[c].pc # "done" /\ call'[c].pc = "done"
                  /\ call'[c].result.success]_vars

\* C8's case: a call has returned success and its row's cell holds the text
\* it returned
C8_Witness ==
    \E c \in Calls :
        /\ Registered(c)
        /\ call[c].wrote = 1
        /\ worksheet[call[c].row_index][5] = call[c].result.all_arrivals
        /\ worksheet # worksheet0

\* C9: for the table of every reachable worksheet and every id, and for the
\* table every call read, _find_person_row finds nothing exactly when no
\* record's id equals the id after trimming both, and otherwise returns the
\* first such record with row position (0-based index + 2); calls that read
\* the same table for the same id hold the same row position and record.
C9_FirstMatch ==
    /\ LET recs == GetAllRecords(worksheet) IN
       \A id \in SubmittedIds \cup TypedIds :
           LET f == FindPersonRow(recs, id)
               m == Matches(recs, id)
           IN  IF m = {} THEN ~f.found
               ELSE /\ f.found
                    /\ f.row_index = (Min(m) - 1) + 2
                    /\ f.person_data = recs[Min(m)]
                    /\ \A h \in 1..Len(Header) :
                           f.person_data[Header[h]] = worksheet[f.row_index][h]
    /\ \A c \in Calls :
           HasRead(c) =>
               LET m == Matches(call[c].all_records, call[c].id_number)
               IN  IF m = {}
                   THEN Done(c) /\ call[c].result.message = MsgNotRegistered
                   ELSE /\ call[c].row_index = (Min(m) - 1) + 2
                        /\ call[c].person_data = call[c].all_records[Min(m)]
    /\ \A c, d \in Calls :
           (HasRead(c) /\ HasRead(d) /\ call[c].read_ver = call[d].read_ver
               /\ call[c].id_number = call[d].id_number) =>
               /\ call[c].all_records = call[d].all_records
               /\ call[c].row_index = call[d].row_index
               /\ call[c].person_data = call[d].person_data

\* C9's case: an id typed with a trailing blank was found on the first of
\* two rows that both hold it, the first with blanks around it
C9_Witness ==
    \E c \in Calls :
        /\ HasRead(c)
        /\ call[c].id_number = <<"7", " ">>
        /\ call[c].row_index = 2
        /\ call[c].person_data.id_number = <<" ", "7", " ">>
        /\ Cardinality(Matches(call[c].all_records, call[c].id_number)) = 2

\* C10: the shift a call computed, and returns on success, is the morning
\* label when the hour its timestamp shows is 0 to 11 and the afternoon
\* label when it is 12 to 23.
C10_ShiftByHour ==
    \A c \in Calls :
        call[c].pc \in {"write", "done"} /\ call[c].new_timestamp # <<>> =>
            LET hour == HourShown(call[c].new_timestamp) IN
            /\ hour \in 0..23
            /\ hour \in 0..11 => call[c].shift = "Jornada Mañana"
            /\ hour \in 12..23 => call[c].shift = "Jornada Tarde"
            /\ Registered(c) =>
                   /\ call[c].result.shift = call[c].shift
                   /\ call[c].result.timestamp = call[c].new_timestamp

\* C10's case: a call registered an arrival in the first second of hour 12
C10_Witness ==
    \E c \in Calls :
        /\ Registered(c)
        /\ HourShown(call[c].result.timestamp) = 12
        /\ call[c].current_dt.minute = 0 /\ call[c].current_dt.second = 0
        /\ call[c].result.shift = "Jornada Tarde"

====
